---- MODULE Spec2Model ----
(***************************************************************************)
(* A model of mownstr's MownStr<'a> (src/src/lib.rs): a two-field handle   *)
(* (addr, xlen) that is either a borrowed &str or an owned Box<str>, the   *)
(* ownership flag being the top bit of xlen.                               *)
(*                                                                         *)
(* usize is WordBits wide.  Memory is a read-only segment of literals      *)
(* (negative addresses) and a heap (addresses 2..MaxBufs+1); address 1 is  *)
(* the dangling pointer of an empty Box<str>; address 0 (null) is the      *)
(* niche of NonNull and stands for "no handle in this slot".               *)
(***************************************************************************)
EXTENDS Integers, Sequences, FiniteSets, TLC

\* ---- bounds of the model ------------------------------------------------
WordBits   == 3   \* width of usize in bits
MaxStrLen  == 2   \* strings up to this length take every content over Bytes
MaxBufs    == 2   \* number of heap addresses
MaxHandles == 3   \* number of handle slots (local variables holding a MownStr)
MaxOuts    == 1   \* number of Box<str>/String values the caller holds at once
MaxSpare   == 1   \* largest spare capacity (capacity - length) of a String
MaxBuilt   == 2   \* number of handle slots of the construction runs
MaxReaders == 2   \* number of threads sharing one handle by reference

\* ---- usize arithmetic -----------------------------------------------------
UsizeMax == 2^WordBits - 1

RECURSIVE BitAnd(_, _)
BitAnd(x, y) ==
  IF x = 0 \/ y = 0 THEN 0
  ELSE (x % 2) * (y % 2) + 2 * BitAnd(x \div 2, y \div 2)

RECURSIVE BitOr(_, _)
BitOr(x, y) ==
  IF x = 0 THEN y
  ELSE IF y = 0 THEN x
  ELSE (IF (x % 2) + (y % 2) > 0 THEN 1 ELSE 0) + 2 * BitOr(x \div 2, y \div 2)

BitNot(x) == UsizeMax - x

LEN_MASK == UsizeMax \div 2
OWN_FLAG == BitNot(LEN_MASK)

\* ---- strings and memory ---------------------------------------------------
Bytes == {1, 2}

Filler(n) == [k \in 1..n |-> 1]

Min(x, y) == IF x <= y THEN x ELSE y

\* the strings a str can hold (at most isize::MAX = LEN_MASK bytes): every
\* content up to MaxStrLen, one string of each greater length
BuildStrings ==
  UNION {[1..n -> Bytes] : n \in 0..Min(MaxStrLen, LEN_MASK)}
    \cup {Filler(n) : n \in (MaxStrLen + 1)..LEN_MASK}

\* the strings of the life-cycle runs: empty, one byte, the longest
LifeStrings == {Filler(n) : n \in {0, 1, LEN_MASK}}

\* lengths around and above the limit, which the constructors debug_assert
\* against
OverStrings == {Filler(n) : n \in LEN_MASK..UsizeMax}

Strings == BuildStrings \cup LifeStrings \cup OverStrings

\* str's Ord: lexicographic on the bytes, a proper prefix being less
RECURSIVE StrCmp(_, _)
StrCmp(a, b) ==
  IF a = <<>> /\ b = <<>> THEN "Equal"
  ELSE IF a = <<>> THEN "Less"
  ELSE IF b = <<>> THEN "Greater"
  ELSE IF Head(a) < Head(b) THEN "Less"
  ELSE IF Head(a) > Head(b) THEN "Greater"
  ELSE StrCmp(Tail(a), Tail(b))

\* str's Hash: what it feeds the hasher, the bytes and then 0xff
StrHash(s) == Append(s, 255)

RECURSIVE Code(_)
Code(s) == IF s = <<>> THEN 0 ELSE 2 * Code(SubSeq(s, 1, Len(s) - 1)) + s[Len(s)]

\* a string literal lives in read-only memory, at an address of its own
StaticAddr(s) == 0 - (1 + Code(s))
StaticAddrs == {StaticAddr(s) : s \in Strings}
RECURSIVE Decode(_)
Decode(c) ==
  IF c = 0 THEN <<>>
  ELSE LET b == IF c % 2 = 1 THEN 1 ELSE 2 IN Append(Decode((c - b) \div 2), b)
StaticMem(a) == Decode(0 - a - 1)

Dangling  == 1
HeapAddrs == 2..(MaxBufs + 1)

NoBuf    == [live |-> FALSE, size |-> 0, bytes |-> <<>>]
NoOut    == [kind |-> "none", addr |-> 0, len |-> 0, cap |-> 0]
NoHandle == [addr |-> 0, xlen |-> 0]
NoPhd    == [lender |-> 0, src |-> <<>>, owned_src |-> FALSE]

Slots    == 1..MaxHandles
OutSlots == 1..MaxOuts
Readers  == 1..MaxReaders

\* a thread that holds no reference to the shared handle
NoReader == [pc |-> "idle", op |-> "none", arg |-> <<>>, todo |-> <<>>,
             self0 |-> NoHandle, addr |-> 0, xlen |-> 0, res |-> <<>>]

VARIABLES
  debug_assertions,  \* cfg!(debug_assertions) of the build
  heap,              \* heap address -> allocation
  hs,                \* slot -> MownStr {addr, xlen}, or NoHandle
  phd,               \* slot -> what the handle was built from, and its lifetime 'a
  outs,              \* Box<str> and String values held by the caller
  ub,                \* "none", or the undefined behaviour the run has hit
  last,              \* the operation just executed and what it observed
  readers            \* thread -> the &self method it runs on the shared handle

vars == <<debug_assertions, heap, hs, phd, outs, ub, last, readers>>

\* the bytes stored at an address
Mem(hp, a) ==
  IF a \in HeapAddrs THEN hp[a].bytes
  ELSE IF a \in StaticAddrs THEN StaticMem(a)
  ELSE <<>>

\* slice::from_raw_parts(ptr, len) read as a str; bytes past the end of the
\* object read as 0
RawStr(hp, a, n) ==
  LET m == Mem(hp, a) IN [k \in 1..n |-> IF k <= Len(m) THEN m[k] ELSE 0]

\* ---- MownStr: the codec ---------------------------------------------------
is_borrowed(h) == BitAnd(h.xlen, OWN_FLAG) = 0

is_owned(h) == BitAnd(h.xlen, OWN_FLAG) = OWN_FLAG

\* a borrowed() that copies xlen as it is
borrowed_keeps_tag(h) == [addr |-> h.addr, xlen |-> h.xlen]

borrowed(h) == [addr |-> h.addr, xlen |-> BitAnd(h.xlen, LEN_MASK)]

\* a real_len that returns xlen unmasked
real_len_with_tag(h) == h.xlen

real_len(h) == BitAnd(h.xlen, LEN_MASK)

\* the &'a str handed out by make_ref
make_ref(h) == [kind |-> "ref", addr |-> h.addr, len |-> h.xlen, cap |-> 0]

\* extract_box: the Box<str> it returns, and the handle it leaves behind
extract_box_ret(h) ==
  [kind |-> "box", addr |-> h.addr, len |-> real_len(h), cap |-> real_len(h)]
\* extract_box without `self.xlen = 0`
extract_box_self_keeps_tag(h) == h

extract_box_self(h) == [h EXCEPT !.xlen = 0]

\* a deref that takes xlen for the length
deref_with_tag(hp, h) == RawStr(hp, h.addr, h.xlen)

\* Deref::deref
deref(hp, h) == RawStr(hp, h.addr, real_len(h))

\* ---- MownStr: comparing, hashing ---------------------------------------------
\* Hash::hash
hash(hp, h) == StrHash(deref(hp, h))

\* PartialEq::eq, Ord::cmp (PartialOrd::partial_cmp is Some of it)
eq(hp, h, other)  == deref(hp, h) = deref(hp, other)
cmp(hp, h, other) == StrCmp(deref(hp, h), deref(hp, other))

\* PartialEq<&str> and PartialOrd<&str> for MownStr
eq_str(hp, h, s)          == deref(hp, h) = s
partial_cmp_str(hp, h, s) == StrCmp(deref(hp, h), s)

\* PartialEq<MownStr> and PartialOrd<MownStr> for &str
str_eq(hp, s, h)          == s = deref(hp, h)
str_partial_cmp(hp, s, h) == StrCmp(s, deref(hp, h))

\* ---- MownStr: formatting ---------------------------------------------------
\* Display::fmt writes the str; Debug::fmt writes it between double quotes
fmt_display(hp, h) == deref(hp, h)
fmt_debug(hp, h)   == <<34>> \o deref(hp, h) \o <<34>>

\* ---- the allocator and the owning std types -------------------------------
FreeAddrs(hp) == {a \in HeapAddrs : ~hp[a].live}

Buf(n, s) == [live |-> TRUE, size |-> n, bytes |-> s]

\* a fresh allocation of `n` bytes holding s: any free address; no allocation
\* is made for n = 0, the pointer is then dangling
alloc(hp, n, s) ==
  IF n = 0 THEN {[heap |-> hp, addr |-> Dangling, allocs |-> {}]}
  ELSE {[heap |-> [hp EXCEPT ![a] = Buf(n, s)], addr |-> a, allocs |-> {a}] :
          a \in FreeAddrs(hp)}

\* dealloc(ptr, Layout(n)).  Releasing what is no live heap block, or with a
\* size other than the block's, is undefined behaviour: the block may or may
\* not end up released, and the run is over.
dealloc(hp, a, n) ==
  LET call == <<[addr |-> a, len |-> n]>> IN
  IF a \notin HeapAddrs
    THEN {[heap |-> hp, ub |-> "bad_free", rel |-> call]}
  ELSE IF ~hp[a].live
    THEN {[heap |-> hp, ub |-> "double_free", rel |-> call]}
  ELSE IF hp[a].size # n
    THEN {[heap |-> hp, ub |-> "size_mismatch", rel |-> call],
          [heap |-> [hp EXCEPT ![a] = NoBuf], ub |-> "size_mismatch", rel |-> call]}
  ELSE {[heap |-> [hp EXCEPT ![a] = NoBuf], ub |-> "none", rel |-> call]}

NoRelease(hp) == [heap |-> hp, ub |-> "none", rel |-> <<>>]

\* drop of a Box<str> or of a String: a zero-sized block is never deallocated
drop_owner(hp, b) ==
  IF b.cap = 0 THEN {NoRelease(hp)} ELSE dealloc(hp, b.addr, b.cap)

\* String::into_boxed_str: shrinks the buffer to the length; the allocator
\* may shrink in place or move the block
into_boxed_str(hp, st) ==
  IF st.cap = st.len
    THEN {[heap |-> hp,
           box |-> [kind |-> "box", addr |-> st.addr, len |-> st.len, cap |-> st.len]]}
  ELSE IF st.len = 0
    THEN {[heap |-> [hp EXCEPT ![st.addr] = NoBuf],
           box |-> [kind |-> "box", addr |-> Dangling, len |-> 0, cap |-> 0]]}
  ELSE {[heap |-> [[hp EXCEPT ![st.addr] = NoBuf] EXCEPT ![a] = Buf(st.len, hp[st.addr].bytes)],
         box |-> [kind |-> "box", addr |-> a, len |-> st.len, cap |-> st.len]] :
          a \in {st.addr} \cup FreeAddrs(hp)}

\* ---- MownStr: construction, destruction, cloning --------------------------
\* what a constructor call ends with: the handle (NoHandle after a panic), the
\* heap, and the blocks allocated and released on the way
Built(hp, h, al) ==
  [heap |-> hp, ub |-> "none", h |-> h, panicked |-> FALSE, allocs |-> al, rel |-> <<>>]

\* MownStr::from_ref, From<&'a str>
from_ref(hp, dbg, other) ==
  IF dbg /\ ~(other.len <= LEN_MASK)
    THEN {[heap |-> hp, ub |-> "none", h |-> NoHandle, panicked |-> TRUE,
           allocs |-> {}, rel |-> <<>>]}
  ELSE {Built(hp, [addr |-> other.addr, xlen |-> other.len], {})}

\* From<Box<str>> without `| OWN_FLAG`
from_box_no_flag(hp, dbg, other) ==
  {Built(hp, [addr |-> other.addr, xlen |-> other.len], {})}

\* From<Box<str>> without the debug_assert
from_box_unchecked(hp, dbg, other) ==
  {Built(hp, [addr |-> other.addr, xlen |-> BitOr(other.len, OWN_FLAG)], {})}

\* From<Box<str>>; a failed debug_assert unwinds and drops `other`
from_box(hp, dbg, other) ==
  IF dbg /\ ~(other.len <= LEN_MASK)
    THEN {[heap |-> o.heap, ub |-> o.ub, h |-> NoHandle, panicked |-> TRUE,
           allocs |-> {}, rel |-> o.rel] : o \in drop_owner(hp, other)}
  ELSE {Built(hp, [addr |-> other.addr, xlen |-> BitOr(other.len, OWN_FLAG)], {})}

\* From<String>
from_string(hp, dbg, other) ==
  UNION {from_box(b.heap, dbg, b.box) : b \in into_boxed_str(hp, other)}

\* From<Cow<'a, str>>
from_cow(hp, dbg, other) ==
  IF other.variant = "Borrowed"
    THEN from_ref(hp, dbg, other.val)
    ELSE from_string(hp, dbg, other.val)

\* a Drop that forgets the owned block
drop_forgets(hp, h) == {[heap |-> hp, ub |-> "none", rel |-> <<>>, self |-> h]}

\* Drop::drop: the handle's fields afterwards, the heap, the blocks released
drop(hp, h) ==
  IF is_owned(h)
    THEN {[heap |-> o.heap, ub |-> o.ub, rel |-> o.rel, self |-> extract_box_self(h)] :
            o \in drop_owner(hp, extract_box_ret(h))}
    ELSE {[heap |-> hp, ub |-> "none", rel |-> <<>>, self |-> h]}

\* Box::<str>::from(&str): a fresh exactly-sized copy
box_from_str(hp, s) ==
  {[heap |-> a.heap, allocs |-> a.allocs,
    box |-> [kind |-> "box", addr |-> a.addr, len |-> Len(s), cap |-> Len(s)]] :
      a \in alloc(hp, Len(s), s)}

\* a Clone that copies the two fields whatever the tag
clone_shallow(hp, dbg, h) == {Built(hp, [addr |-> h.addr, xlen |-> h.xlen], {})}

\* Clone::clone
clone(hp, dbg, h) ==
  IF is_owned(h)
    THEN UNION {{[c EXCEPT !.allocs = b.allocs] : c \in from_box(b.heap, dbg, b.box)} :
                  b \in box_from_str(hp, deref(hp, h))}
    ELSE {Built(hp, [addr |-> h.addr, xlen |-> h.xlen], {})}

\* MownStr::to::<T>() for T = Box<str> ("box") and T = String ("string"):
\* the value passed to T::from, T's value, and the drop of `self` on return
T_from(hp, T, arg) ==
  IF arg.kind = "box"
    THEN {[heap |-> hp, allocs |-> {}, val |-> [arg EXCEPT !.kind = T]]}
    ELSE {[heap |-> b.heap, allocs |-> b.allocs, val |-> [b.box EXCEPT !.kind = T]] :
            b \in box_from_str(hp, RawStr(hp, arg.addr, arg.len))}

\* a to() that hands T a &str whatever the tag, and lets `self` drop its block
to_by_ref(hp, T, h) ==
  LET arg == [kind |-> "ref", addr |-> h.addr, len |-> real_len(h), cap |-> 0]
  IN UNION {{[heap |-> d.heap, ub |-> d.ub, val |-> v.val, passed |-> arg,
              allocs |-> v.allocs, rel |-> d.rel, self1 |-> h, self |-> d.self] :
               d \in drop(v.heap, h)} :
              v \in T_from(hp, T, arg)}

\* a to() that makes the Box<str> without extract_box(): `self` keeps its tag
to_keeps_tag(hp, T, h) ==
  LET arg == IF is_owned(h) THEN extract_box_ret(h) ELSE make_ref(h)
  IN UNION {{[heap |-> d.heap, ub |-> d.ub, val |-> v.val, passed |-> arg,
              allocs |-> v.allocs, rel |-> d.rel, self1 |-> h, self |-> d.self] :
               d \in drop(v.heap, h)} :
              v \in T_from(hp, T, arg)}

to(hp, T, h) ==
  LET arg   == IF is_owned(h) THEN extract_box_ret(h) ELSE make_ref(h)
      self1 == IF is_owned(h) THEN extract_box_self(h) ELSE h
  IN UNION {{[heap |-> d.heap, ub |-> d.ub, val |-> v.val, passed |-> arg,
              allocs |-> v.allocs, rel |-> d.rel,
              self1 |-> self1, self |-> d.self] :
               d \in drop(v.heap, self1)} :
              v \in T_from(hp, T, arg)}

\* a From<MownStr> for Cow that takes the make_ref() branch whatever the tag
into_cow_always_borrowed(hp, other) ==
  {[heap |-> d.heap, ub |-> d.ub, variant |-> "Borrowed", val |-> make_ref(other),
    allocs |-> {}, rel |-> d.rel] : d \in drop(hp, other)}

\* From<MownStr<'a>> for Cow<'a, str>: the variant and what it holds; `other`
\* is consumed by to() when owned, and dropped on return when borrowed
into_cow(hp, other) ==
  IF is_owned(other)
    THEN {[heap |-> t.heap, ub |-> t.ub, variant |-> "Owned", val |-> t.val,
           allocs |-> t.allocs, rel |-> t.rel] : t \in to(hp, "string", other)}
    ELSE {[heap |-> d.heap, ub |-> d.ub, variant |-> "Borrowed", val |-> make_ref(other),
           allocs |-> {}, rel |-> d.rel] : d \in drop(hp, other)}

\* ---- the program ----------------------------------------------------------
\* the slot of the handle that threads share by reference
Shared == 1

Live(i) == hs[i] # NoHandle

\* the slot a new handle is bound to, the slot a new Box<str>/String is bound to
FreeSlot(j) == ~Live(j) /\ \A m \in Slots : m < j => Live(m)
FreeOut(k)  == outs[k] = NoOut /\ \A m \in OutSlots : m < k => outs[m] # NoOut

\* the borrow checker: handle i may be moved or dropped only when no handle
\* borrows from it
Unborrowed(i) ==
  /\ \A m \in Slots : Live(m) => phd[m].lender # i
  /\ \A k \in OutSlots : outs[k].kind = "cow_borrowed" => outs[k].lender # i
  /\ i = Shared => \A t \in Readers : readers[t].pc = "idle"

\* a run that has hit undefined behaviour is over
Running == ub = "none"

StrRef(s) == [kind |-> "ref", addr |-> StaticAddr(s), len |-> Len(s), cap |-> 0]

Init ==
  /\ debug_assertions \in BOOLEAN
  /\ heap = [a \in HeapAddrs |-> NoBuf]
  /\ hs   = [i \in Slots |-> NoHandle]
  /\ phd  = [i \in Slots |-> NoPhd]
  /\ outs = [k \in OutSlots |-> NoOut]
  /\ ub   = "none"
  /\ last = [op |-> "init"]
  /\ readers = [t \in Readers |-> NoReader]

\* let bx: Box<str> = s.into()
NewBox(k, s) ==
  /\ Running
  /\ UNCHANGED readers
  /\ FreeOut(k)
  /\ \E b \in box_from_str(heap, s) :
       /\ heap' = b.heap
       /\ outs' = [outs EXCEPT ![k] = b.box]
  /\ last' = [op |-> "new_box"]
  /\ UNCHANGED <<debug_assertions, hs, phd, ub>>

\* a String of content s and capacity len(s) + spare
NewString(k, s, spare) ==
  /\ Running
  /\ UNCHANGED readers
  /\ FreeOut(k)
  /\ Len(s) + spare <= UsizeMax
  /\ \E a \in alloc(heap, Len(s) + spare, s) :
       /\ heap' = a.heap
       /\ outs' = [outs EXCEPT ![k] =
                     [kind |-> "string", addr |-> a.addr, len |-> Len(s),
                      cap |-> Len(s) + spare]]
  /\ last' = [op |-> "new_string"]
  /\ UNCHANGED <<debug_assertions, hs, phd, ub>>

\* drop(bx), drop(string)
DropOut(k) ==
  /\ Running
  /\ UNCHANGED readers
  /\ outs[k] # NoOut
  /\ \E o \in drop_owner(heap, outs[k]) :
       /\ heap' = o.heap
       /\ ub' = o.ub
       /\ last' = [op |-> "drop_out", val |-> outs[k], rel |-> o.rel]
  /\ outs' = [outs EXCEPT ![k] = NoOut]
  /\ UNCHANGED <<debug_assertions, hs, phd>>

\* the end of a constructor call o, binding the handle (if any) to slot j
Construct(op, j, o, p) ==
  /\ heap' = o.heap
  /\ ub' = o.ub
  /\ hs'  = IF o.panicked THEN hs  ELSE [hs EXCEPT ![j] = o.h]
  /\ phd' = IF o.panicked THEN phd ELSE [phd EXCEPT ![j] = p]
  /\ last' = [op |-> op, dst |-> j, src |-> p.src, h |-> o.h, panicked |-> o.panicked,
              allocs |-> o.allocs, rel |-> o.rel]
  /\ UNCHANGED debug_assertions

FromRef(j, s) ==
  /\ Running
  /\ UNCHANGED readers
  /\ FreeSlot(j)
  /\ \E o \in from_ref(heap, debug_assertions, StrRef(s)) :
       Construct("from_ref", j, o, [lender |-> 0, src |-> s, owned_src |-> FALSE])
  /\ UNCHANGED outs

FromBox(j, k) ==
  /\ Running
  /\ UNCHANGED readers
  /\ FreeSlot(j)
  /\ outs[k].kind = "box"
  /\ \E o \in from_box(heap, debug_assertions, outs[k]) :
       Construct("from_box", j, o,
                 [lender |-> 0, src |-> RawStr(heap, outs[k].addr, outs[k].len),
                  owned_src |-> TRUE])
  /\ outs' = [outs EXCEPT ![k] = NoOut]

FromString(j, k) ==
  /\ Running
  /\ UNCHANGED readers
  /\ FreeSlot(j)
  /\ outs[k].kind = "string"
  /\ \E o \in from_string(heap, debug_assertions, outs[k]) :
       Construct("from_string", j, o,
                 [lender |-> 0, src |-> RawStr(heap, outs[k].addr, outs[k].len),
                  owned_src |-> TRUE])
  /\ outs' = [outs EXCEPT ![k] = NoOut]

FromCowBorrowed(j, s) ==
  /\ Running
  /\ UNCHANGED readers
  /\ FreeSlot(j)
  /\ \E o \in from_cow(heap, debug_assertions, [variant |-> "Borrowed", val |-> StrRef(s)]) :
       Construct("from_cow_borrowed", j, o, [lender |-> 0, src |-> s, owned_src |-> FALSE])
  /\ UNCHANGED outs

FromCowOwned(j, k) ==
  /\ Running
  /\ UNCHANGED readers
  /\ FreeSlot(j)
  /\ outs[k].kind = "string"
  /\ \E o \in from_cow(heap, debug_assertions, [variant |-> "Owned", val |-> outs[k]]) :
       Construct("from_cow_owned", j, o,
                 [lender |-> 0, src |-> RawStr(heap, outs[k].addr, outs[k].len),
                  owned_src |-> TRUE])
  /\ outs' = [outs EXCEPT ![k] = NoOut]

\* the handle in slot i goes out of scope
Drop(i) ==
  /\ Running
  /\ UNCHANGED readers
  /\ Live(i)
  /\ Unborrowed(i)
  /\ \E o \in drop(heap, hs[i]) :
       /\ heap' = o.heap
       /\ ub' = o.ub
       /\ last' = [op |-> "drop", slot |-> i, h |-> hs[i], phd |-> phd[i],
                   self |-> o.self, rel |-> o.rel]
  /\ hs'  = [hs EXCEPT ![i] = NoHandle]
  /\ phd' = [phd EXCEPT ![i] = NoPhd]
  /\ UNCHANGED <<debug_assertions, outs>>

\* let c = hs[i].clone()
Clone(i, j) ==
  /\ Running
  /\ UNCHANGED readers
  /\ Live(i)
  /\ FreeSlot(j)
  /\ \E o \in clone(heap, debug_assertions, hs[i]) :
       /\ heap' = o.heap
       /\ ub' = o.ub
       /\ hs' = [hs EXCEPT ![j] = o.h]
       /\ phd' = [phd EXCEPT ![j] = [phd[i] EXCEPT !.owned_src = is_owned(hs[i])]]
       /\ last' = [op |-> "clone", slot |-> i, dst |-> j, h |-> hs[i],
                   allocs |-> o.allocs, rel |-> o.rel]
  /\ UNCHANGED <<debug_assertions, outs>>

\* let v = hs[i].borrowed()
Borrowed(i, j) ==
  /\ Running
  /\ UNCHANGED readers
  /\ Live(i)
  /\ FreeSlot(j)
  /\ hs' = [hs EXCEPT ![j] = borrowed(hs[i])]
  /\ phd' = [phd EXCEPT ![j] = [lender |-> i, src |-> phd[i].src, owned_src |-> FALSE]]
  /\ last' = [op |-> "borrowed", slot |-> i, dst |-> j, h |-> hs[i]]
  /\ UNCHANGED <<debug_assertions, heap, outs, ub>>

\* let t: T = hs[i].to(); also From<MownStr> for Box<str> and for String
To(i, k, T) ==
  /\ Running
  /\ UNCHANGED readers
  /\ Live(i)
  /\ Unborrowed(i)
  /\ FreeOut(k)
  /\ \E o \in to(heap, T, hs[i]) :
       /\ heap' = o.heap
       /\ ub' = o.ub
       /\ outs' = [outs EXCEPT ![k] = o.val]
       /\ last' = [op |-> "to", slot |-> i, out |-> k, h |-> hs[i],
                   bytes |-> deref(heap, hs[i]), passed |-> o.passed,
                   self1 |-> o.self1, self |-> o.self, allocs |-> o.allocs, rel |-> o.rel]
  /\ hs'  = [hs EXCEPT ![i] = NoHandle]
  /\ phd' = [phd EXCEPT ![i] = NoPhd]
  /\ UNCHANGED debug_assertions

\* a Cow<'a, str> the caller holds, as a value of outs: the String of an Owned,
\* the &'a str of a Borrowed with the handle its lifetime is tied to
CowOut(variant, val, lender) ==
  [kind |-> IF variant = "Owned" THEN "cow_owned" ELSE "cow_borrowed",
   addr |-> val.addr, len |-> val.len, cap |-> val.cap, lender |-> lender]

IsCow(k) == outs[k].kind \in {"cow_owned", "cow_borrowed"}

\* let c: Cow<str> = hs[i].into()
IntoCow(i, k) ==
  /\ Running
  /\ UNCHANGED readers
  /\ Live(i)
  /\ Unborrowed(i)
  /\ FreeOut(k)
  /\ \E o \in into_cow(heap, hs[i]) :
       /\ heap' = o.heap
       /\ ub' = o.ub
       /\ outs' = [outs EXCEPT ![k] =
                     CowOut(o.variant, o.val,
                            IF o.variant = "Owned" THEN 0 ELSE phd[i].lender)]
       /\ last' = [op |-> "into_cow", slot |-> i, out |-> k, h |-> hs[i],
                   phd |-> phd[i], bytes |-> deref(heap, hs[i]),
                   variant |-> o.variant, val |-> o.val,
                   allocs |-> o.allocs, rel |-> o.rel]
  /\ hs'  = [hs EXCEPT ![i] = NoHandle]
  /\ phd' = [phd EXCEPT ![i] = NoPhd]
  /\ UNCHANGED debug_assertions

\* let m: MownStr = c.into(), for the Cow<str> held in outs[k]
FromCow(j, k) ==
  /\ Running
  /\ UNCHANGED readers
  /\ FreeSlot(j)
  /\ IsCow(k)
  /\ LET variant == IF outs[k].kind = "cow_owned" THEN "Owned" ELSE "Borrowed"
     IN \E o \in from_cow(heap, debug_assertions, [variant |-> variant, val |-> outs[k]]) :
          Construct("from_cow", j, o,
                    [lender |-> outs[k].lender,
                     src |-> RawStr(heap, outs[k].addr, outs[k].len),
                     owned_src |-> variant = "Owned"])
  /\ outs' = [outs EXCEPT ![k] = NoOut]

Next ==
  \/ \E k \in OutSlots, s \in LifeStrings : NewBox(k, s)
  \/ \E k \in OutSlots, s \in LifeStrings, spare \in 0..MaxSpare : NewString(k, s, spare)
  \/ \E k \in OutSlots : DropOut(k)
  \/ \E j \in Slots, s \in LifeStrings : FromRef(j, s)
  \/ \E j \in Slots, k \in OutSlots : FromBox(j, k)
  \/ \E j \in Slots, k \in OutSlots : FromString(j, k)
  \/ \E j \in Slots, s \in LifeStrings : FromCowBorrowed(j, s)
  \/ \E j \in Slots, k \in OutSlots : FromCowOwned(j, k)
  \/ \E i \in Slots : Drop(i)
  \/ \E i, j \in Slots : Clone(i, j)
  \/ \E i, j \in Slots : Borrowed(i, j)
  \/ \E i \in Slots, k \in OutSlots, T \in {"box", "string"} : To(i, k, T)

\* the life cycle of handles: every operation, on a few strings
Spec == Init /\ [][Next]_vars

\* construction and destruction, on the strings S
Build(S) ==
  \/ \E k \in OutSlots, s \in S : NewBox(k, s)
  \/ \E k \in OutSlots, s \in S, spare \in 0..MaxSpare : NewString(k, s, spare)
  \/ \E k \in OutSlots : DropOut(k)
  \/ \E j \in 1..MaxBuilt, s \in S : FromRef(j, s)
  \/ \E j \in 1..MaxBuilt, k \in OutSlots : FromBox(j, k)
  \/ \E j \in 1..MaxBuilt, k \in OutSlots : FromString(j, k)
  \/ \E j \in 1..MaxBuilt, s \in S : FromCowBorrowed(j, s)
  \/ \E j \in 1..MaxBuilt, k \in OutSlots : FromCowOwned(j, k)
  \/ \E i \in Slots : Drop(i)

NextBuild == Build(BuildStrings)

\* construction and destruction only, on every content
SpecBuild == Init /\ [][NextBuild]_vars

NextOverflow == Build(OverStrings)

\* construction and destruction only, on lengths at and above LEN_MASK
SpecOverflow == Init /\ [][NextOverflow]_vars

\* handles made from Cow values and turned into Cow values, on every content
NextCow ==
  \/ \E k \in OutSlots, s \in BuildStrings, spare \in 0..MaxSpare : NewString(k, s, spare)
  \/ \E k \in OutSlots : DropOut(k)
  \/ \E j \in 1..MaxBuilt, s \in BuildStrings : FromCowBorrowed(j, s)
  \/ \E j \in 1..MaxBuilt, k \in OutSlots : FromCowOwned(j, k)
  \/ \E j \in 1..MaxBuilt, k \in OutSlots : FromCow(j, k)
  \/ \E i \in Slots, k \in OutSlots : IntoCow(i, k)
  \/ \E i, j \in Slots : Borrowed(i, j)
  \/ \E i \in Slots : Drop(i)

SpecCow == Init /\ [][NextCow]_vars

\* ---- threads sharing the handle of slot Shared by reference ----------------
\* the methods that take &self and return a value computed from it
PureOps == {"is_borrowed", "is_owned", "borrowed", "deref", "len", "as_ref",
            "eq", "cmp", "hash", "fmt_debug", "fmt_display"}
ReadOps == PureOps \cup {"clone"}

\* the fields of *self a method loads, in the order of its code
Reads(op) ==
  CASE op \in {"is_borrowed", "is_owned"} -> <<"xlen">>
    [] op = "clone"                        -> <<"xlen", "addr", "xlen">>
    [] OTHER                               -> <<"addr", "xlen">>

\* the second operand of == and of cmp: a handle borrowing the literal s
Other(s) == [addr |-> StaticAddr(s), xlen |-> Len(s)]

\* what the method op returns for the fields h it has loaded
Result(hp, op, h, s) ==
  CASE op = "is_borrowed" -> is_borrowed(h)
    [] op = "is_owned"    -> is_owned(h)
    [] op = "borrowed"    -> borrowed(h)
    [] op = "deref"       -> deref(hp, h)
    [] op = "len"         -> Len(deref(hp, h))
    [] op = "as_ref"      -> deref(hp, h)
    [] op = "eq"          -> eq(hp, h, Other(s))
    [] op = "cmp"         -> cmp(hp, h, Other(s))
    [] op = "hash"        -> hash(hp, h)
    [] op = "fmt_debug"   -> fmt_debug(hp, h)
    [] op = "fmt_display" -> fmt_display(hp, h)

\* thread t calls hs[Shared].op(), with s the other operand of == and cmp
Call(t, op, s) ==
  /\ Running
  /\ Live(Shared)
  /\ readers[t].pc = "idle"
  /\ (op \in {"eq", "cmp"}) \/ s = <<>>
  /\ readers' = [readers EXCEPT ![t] =
                   [NoReader EXCEPT !.pc = "run", !.op = op, !.arg = s,
                                    !.todo = Reads(op), !.self0 = hs[Shared]]]
  /\ last' = [op |-> "read", rel |-> <<>>]
  /\ UNCHANGED <<debug_assertions, heap, hs, phd, outs, ub>>

\* thread t loads the next field of *self
ReadField(t) ==
  /\ Running
  /\ readers[t].pc = "run"
  /\ readers[t].todo # <<>>
  /\ LET f == Head(readers[t].todo)
         r == [readers[t] EXCEPT !.todo = Tail(@)]
     IN readers' = [readers EXCEPT ![t] =
                      IF f = "addr" THEN [r EXCEPT !.addr = hs[Shared].addr]
                                    ELSE [r EXCEPT !.xlen = hs[Shared].xlen]]
  /\ last' = [op |-> "read", rel |-> <<>>]
  /\ UNCHANGED <<debug_assertions, heap, hs, phd, outs, ub>>

\* thread t computes the method's value from the fields it has loaded
Finish(t) ==
  /\ Running
  /\ readers[t].pc = "run"
  /\ readers[t].todo = <<>>
  /\ LET r    == readers[t]
         self == [addr |-> r.addr, xlen |-> r.xlen]
     IN IF r.op = "clone"
          THEN \E o \in clone(heap, debug_assertions, self) :
                 /\ heap' = o.heap
                 /\ ub' = o.ub
                 /\ readers' = [readers EXCEPT ![t] = [r EXCEPT !.pc = "done", !.res = o.h]]
                 /\ last' = [op |-> "read", rel |-> o.rel]
          ELSE /\ readers' = [readers EXCEPT ![t] =
                                [r EXCEPT !.pc = "done",
                                          !.res = Result(heap, r.op, self, r.arg)]]
               /\ last' = [op |-> "read", rel |-> <<>>]
               /\ UNCHANGED <<heap, ub>>
  /\ UNCHANGED <<debug_assertions, hs, phd, outs>>

\* thread t lets go of the value and of its reference; a clone is dropped
Return(t) ==
  /\ Running
  /\ readers[t].pc = "done"
  /\ IF readers[t].op = "clone"
       THEN \E o \in drop(heap, readers[t].res) :
              /\ heap' = o.heap
              /\ ub' = o.ub
              /\ last' = [op |-> "return", rel |-> o.rel]
       ELSE /\ last' = [op |-> "return", rel |-> <<>>]
            /\ UNCHANGED <<heap, ub>>
  /\ readers' = [readers EXCEPT ![t] = NoReader]
  /\ UNCHANGED <<debug_assertions, hs, phd, outs>>

NextShare ==
  \/ \E k \in OutSlots, s \in LifeStrings : NewBox(k, s)
  \/ \E s \in LifeStrings : FromRef(Shared, s)
  \/ \E k \in OutSlots : FromBox(Shared, k)
  \/ Drop(Shared)
  \/ \E t \in Readers, op \in ReadOps, s \in LifeStrings : Call(t, op, s)
  \/ \E t \in Readers : ReadField(t)
  \/ \E t \in Readers : Finish(t)
  \/ \E t \in Readers : Return(t)

\* one handle, shared by reference between threads that call its &self methods
SpecShare == Init /\ [][NextShare]_vars

\* every operation that makes, copies, converts or destroys a handle
NextAll ==
  \/ Next
  \/ \E i \in Slots, k \in OutSlots : IntoCow(i, k)
  \/ \E j \in Slots, k \in OutSlots : FromCow(j, k)

SpecAll == Init /\ [][NextAll]_vars

\* ---- properties -----------------------------------------------------------
\* the heap blocks owned by the caller's Box<str>/String values
OutOwns(k) == outs[k].kind \in {"box", "string", "cow_owned"} /\ outs[k].cap > 0

\* C1: no double free.  No run releases a block that is not live; the handle
\* extract_box() has run on reports borrowed (in drop and in to::<T>()), and
\* the drop of the handle consumed by to::<T>() releases nothing, so that the
\* block handed over is still live, owned by the value to() returned.
C1_NoDoubleFree ==
  /\ ub # "double_free"
  /\ last.op = "drop" => is_borrowed(last.self)
  /\ last.op = "to" =>
       /\ is_borrowed(last.self1)
       /\ is_borrowed(last.self)
       /\ last.rel = <<>>
       /\ (is_owned(last.h) /\ real_len(last.h) > 0) =>
            /\ heap[last.h.addr].live
            /\ outs[last.out].addr = last.h.addr

\* an owned, non-empty handle was converted by to::<T>() and its block lives on
C1_Witness ==
  /\ last.op = "to"
  /\ is_owned(last.h)
  /\ real_len(last.h) > 0
  /\ last.self1.xlen = 0
  /\ heap[last.h.addr].live
  /\ ub = "none"

\* the heap blocks owned by a live handle or by a value of the caller
Owned(i) == Live(i) /\ is_owned(hs[i])
Owners(a) ==
  Cardinality({i \in Slots : Owned(i) /\ real_len(hs[i]) > 0 /\ hs[i].addr = a})
    + Cardinality({k \in OutSlots : OutOwns(k) /\ outs[k].addr = a})
LiveBlocks == {a \in HeapAddrs : heap[a].live}

\* C2: no leak.  The drop of a handle whose tag is set releases, in that step,
\* the block at its address with its decoded length (a handle of length 0 owns
\* no block); hence no live block is without an owner, and with at most one
\* owner alive at most one block is unreleased.
C2_NoLeak ==
  /\ (last.op = "drop" /\ is_owned(last.h)) =>
       IF real_len(last.h) > 0
         THEN /\ last.rel = <<[addr |-> last.h.addr, len |-> real_len(last.h)]>>
              /\ ub = "none"
              /\ ~heap[last.h.addr].live
         ELSE last.rel = <<>>
  /\ \A a \in LiveBlocks : Owners(a) >= 1
  /\ (Cardinality({i \in Slots : Owned(i)}) + Cardinality({k \in OutSlots : OutOwns(k)}) <= 1)
       => Cardinality(LiveBlocks) <= 1

\* an owned, non-empty handle was dropped, and the heap is back to empty
C2_Witness ==
  /\ last.op = "drop"
  /\ is_owned(last.h)
  /\ real_len(last.h) > 0
  /\ Len(last.rel) = 1
  /\ LiveBlocks = {}

Constructors == {"from_ref", "from_box", "from_string", "from_cow_borrowed", "from_cow_owned"}

\* C3: ownership-correctness.  A handle built from a &str or from
\* Cow::Borrowed of length <= LEN_MASK reports borrowed and not owned; one
\* built from a Box<str>, a String (the empty one too) or Cow::Owned of
\* length <= LEN_MASK reports owned and not borrowed.
C3_OwnershipCorrect ==
  /\ (last.op \in Constructors /\ Len(last.src) <= LEN_MASK) =>
       /\ ~last.panicked
       /\ hs[last.dst] = last.h
       /\ last.op \in {"from_ref", "from_cow_borrowed"} =>
            is_borrowed(last.h) /\ ~is_owned(last.h)
       /\ last.op \in {"from_box", "from_string", "from_cow_owned"} =>
            is_owned(last.h) /\ ~is_borrowed(last.h)
  /\ \A i \in Slots : (Live(i) /\ Len(phd[i].src) <= LEN_MASK) =>
       /\ is_owned(hs[i]) = phd[i].owned_src
       /\ is_borrowed(hs[i]) = ~phd[i].owned_src

\* the empty String has just been made a handle, which reports owned
C3_Witness ==
  /\ last.op = "from_string"
  /\ last.src = <<>>
  /\ Live(last.dst)
  /\ is_owned(hs[last.dst])

\* C4: round trip.  For a source s of length <= LEN_MASK, borrowed or owned,
\* dereferencing the handle yields the bytes of s, of length len(s): the tag
\* is no part of the length.
C4_RoundTrip ==
  \A i \in Slots : (Live(i) /\ Len(phd[i].src) <= LEN_MASK) =>
    /\ deref(heap, hs[i]) = phd[i].src
    /\ Len(deref(heap, hs[i])) = Len(phd[i].src)
    /\ real_len(hs[i]) = Len(phd[i].src)

\* a borrowed and an owned handle of the same two-byte string are both live
C4_Witness ==
  \E i, j \in Slots :
    /\ Live(i) /\ Live(j)
    /\ ~phd[i].owned_src /\ phd[j].owned_src
    /\ phd[i].src = phd[j].src
    /\ Len(phd[i].src) = Min(MaxStrLen, LEN_MASK)
    /\ deref(heap, hs[j]) = phd[i].src

\* C5: ==, the orderings and the hash of handles agree with those of the
\* strings they were built from, whatever the construction of either, and so
\* do the comparisons of a handle with a plain &str on either side; a set of
\* handles is looked up alike by a handle of either kind and by a &str.
C5_SameAsStr ==
  /\ \A i, j \in Slots : (Live(i) /\ Live(j)) =>
       /\ eq(heap, hs[i], hs[j]) = (phd[i].src = phd[j].src)
       /\ cmp(heap, hs[i], hs[j]) = StrCmp(phd[i].src, phd[j].src)
       /\ (hash(heap, hs[i]) = hash(heap, hs[j])) = (phd[i].src = phd[j].src)
  /\ \A i \in Slots : Live(i) =>
       /\ hash(heap, hs[i]) = StrHash(phd[i].src)
       /\ \A s \in BuildStrings :
            /\ eq_str(heap, hs[i], s) = (phd[i].src = s)
            /\ str_eq(heap, s, hs[i]) = (s = phd[i].src)
            /\ partial_cmp_str(heap, hs[i], s) = StrCmp(phd[i].src, s)
            /\ str_partial_cmp(heap, s, hs[i]) = StrCmp(s, phd[i].src)
            /\ (hash(heap, hs[i]) = StrHash(s) /\ eq_str(heap, hs[i], s)) = (phd[i].src = s)

\* an owned handle compares greater than a borrowed one it extends, and
\* equal to an owned one of the same bytes elsewhere
C5_Witness ==
  \E i, j \in Slots :
    /\ Live(i) /\ Live(j)
    /\ phd[i].owned_src /\ ~phd[j].owned_src
    /\ Len(phd[j].src) > 0
    /\ cmp(heap, hs[i], hs[j]) = "Greater"
    /\ hs[i].addr # hs[j].addr

\* what holds of every clone: the original is unchanged, the clone reads the
\* same bytes, a borrowed handle is copied field by field without allocating,
\* and a drop releases no block but the dropped handle's own
CloneCommon ==
  /\ last.op = "clone" =>
       /\ hs[last.slot] = last.h
       /\ last.rel = <<>>
       /\ deref(heap, hs[last.dst]) = deref(heap, last.h)
       /\ is_owned(hs[last.dst]) = is_owned(last.h)
       /\ is_borrowed(last.h) => (hs[last.dst] = last.h /\ last.allocs = {})
  /\ last.op = "drop" =>
       /\ \A n \in 1..Len(last.rel) : last.rel[n].addr = last.h.addr
       /\ \A i \in Slots : (Owned(i) /\ real_len(hs[i]) > 0) => heap[hs[i].addr].live
  /\ \A a \in HeapAddrs : Owners(a) <= 1

\* C6 as claimed: the clone of any owned handle allocates one new buffer and
\* lies at another address than the original
C6_AsClaimed ==
  /\ CloneCommon
  /\ (last.op = "clone" /\ is_owned(last.h)) =>
       /\ Cardinality(last.allocs) = 1
       /\ hs[last.dst].addr # last.h.addr

\* C6, amended: ... the clone of an owned handle of length > 0 allocates one
\* new buffer and lies at another address; the clone of an owned handle of
\* length 0 allocates nothing and has the address of the original (that of
\* every empty Box<str>, which owns no block).
C6_Clone ==
  /\ CloneCommon
  /\ (last.op = "clone" /\ is_owned(last.h)) =>
       IF real_len(last.h) > 0
         THEN /\ last.allocs = {hs[last.dst].addr}
              /\ hs[last.dst].addr \in HeapAddrs
              /\ hs[last.dst].addr # last.h.addr
              /\ heap[hs[last.dst].addr].live /\ heap[last.h.addr].live
         ELSE /\ last.allocs = {}
              /\ hs[last.dst].addr = last.h.addr

\* an owned clone of an owned non-empty handle has been dropped, and the
\* original's block is untouched
C6_Witness ==
  /\ last.op = "drop"
  /\ is_owned(last.h) /\ real_len(last.h) > 0
  /\ Len(last.rel) = 1
  /\ \E i \in Slots :
       /\ Owned(i)
       /\ hs[i].addr # last.h.addr
       /\ deref(heap, hs[i]) = last.phd.src
       /\ heap[hs[i].addr].live

\* C7: borrowed() returns the address and the real length of the handle with
\* the tag cleared, a handle equal to the original; the original is left as it
\* was; the drop of a view or of a clone of a view releases nothing, and the
\* owned original then releases its block, once.
C7_Downgrade ==
  /\ last.op = "borrowed" =>
       /\ hs[last.slot] = last.h
       /\ hs[last.dst].addr = last.h.addr
       /\ real_len(hs[last.dst]) = real_len(last.h)
       /\ hs[last.dst].xlen = real_len(last.h)
       /\ is_borrowed(hs[last.dst])
       /\ eq(heap, hs[last.dst], last.h)
       /\ is_owned(hs[last.slot]) = phd[last.slot].owned_src
  /\ \A i \in Slots : (Live(i) /\ phd[i].lender # 0) =>
       /\ is_borrowed(hs[i])
       /\ Live(phd[i].lender)
  /\ (last.op = "drop" /\ last.phd.lender # 0) =>
       /\ last.rel = <<>>
       /\ Owned(last.phd.lender) /\ real_len(hs[last.phd.lender]) > 0
            => heap[hs[last.phd.lender].addr].live
  /\ (last.op = "drop" /\ is_owned(last.h) /\ real_len(last.h) > 0) =>
       /\ last.rel = <<[addr |-> last.h.addr, len |-> real_len(last.h)]>>
       /\ ub = "none"

\* a view of an owned non-empty handle has been dropped; the owner is live
C7_Witness ==
  /\ last.op = "drop"
  /\ last.phd.lender # 0
  /\ Owned(last.phd.lender)
  /\ hs[last.phd.lender].addr = last.h.addr
  /\ real_len(last.h) > 0
  /\ heap[last.h.addr].live

\* C8 as claimed: a source longer than LEN_MASK is rejected by the
\* constructor, which yields no handle; every handle that exists has the
\* length of its source, at most LEN_MASK, and the tag of its source
RejectsOverflow ==
  /\ (last.op \in Constructors /\ Len(last.src) > LEN_MASK) =>
       /\ last.panicked
       /\ last.h = NoHandle
       /\ ~Live(last.dst)
  /\ \A i \in Slots : Live(i) =>
       /\ Len(phd[i].src) <= LEN_MASK
       /\ real_len(hs[i]) = Len(phd[i].src)
       /\ is_owned(hs[i]) = phd[i].owned_src

C10_To ==
  last.op = "to" =>
    /\ ~Live(last.slot)
    /\ last.rel = <<>>
    /\ last.passed.addr = last.h.addr
    /\ last.passed.len = real_len(last.h)
    /\ RawStr(heap, last.passed.addr, last.passed.len) = last.bytes
    /\ IF is_owned(last.h)
         THEN /\ last.passed.kind = "box"
              /\ last.allocs = {}
              /\ outs[last.out].addr = last.h.addr
              /\ outs[last.out].len = real_len(last.h)
              /\ real_len(last.h) > 0 =>
                   (heap[last.h.addr].live /\ Owners(last.h.addr) = 1)
         ELSE /\ last.passed.kind = "ref"
              /\ outs[last.out].len = real_len(last.h)

\* an owned handle of the longest string has become a String on its block
C10_Witness ==
  /\ last.op = "to"
  /\ is_owned(last.h)
  /\ real_len(last.h) = LEN_MASK
  /\ last.passed.kind = "box"
  /\ outs[last.out] = [kind |-> "string", addr |-> last.h.addr, len |-> LEN_MASK, cap |-> LEN_MASK]
  /\ last.bytes = Filler(LEN_MASK)

\* C11: From<MownStr> for Cow<str> consumes the handle and yields Cow::Owned
\* exactly when the handle is owned, Cow::Borrowed exactly when it is borrowed;
\* either holds the handle's address, real length and bytes; an Owned holds the
\* handle's own block, still live and owned by the Cow alone; nothing is
\* allocated or released on either path; and for a handle made from a Cow the
\* Cow it is turned into has the first Cow's variant and bytes.
C11_IntoCow ==
  last.op = "into_cow" =>
    /\ ~Live(last.slot)
    /\ last.variant = (IF is_owned(last.h) THEN "Owned" ELSE "Borrowed")
    /\ last.val.addr = last.h.addr
    /\ last.val.len = real_len(last.h)
    /\ RawStr(heap, last.val.addr, last.val.len) = last.bytes
    /\ last.allocs = {}
    /\ last.rel = <<>>
    /\ outs[last.out].kind = (IF is_owned(last.h) THEN "cow_owned" ELSE "cow_borrowed")
    /\ IF is_owned(last.h)
         THEN /\ last.val.kind = "string"
              /\ last.val.cap = real_len(last.h)
              /\ real_len(last.h) > 0 =>
                   (heap[last.h.addr].live /\ Owners(last.h.addr) = 1)
         ELSE last.val.kind = "ref"
    /\ last.variant = (IF last.phd.owned_src THEN "Owned" ELSE "Borrowed")
    /\ last.bytes = last.phd.src

\* a handle made from a Cow::Owned of a non-empty string has become a
\* Cow::Owned on the handle's block
C11_Witness ==
  /\ last.op = "into_cow"
  /\ last.phd.lender = 0
  /\ last.phd.owned_src
  /\ Len(last.phd.src) > 0
  /\ is_owned(last.h)
  /\ outs[last.out].kind = "cow_owned"
  /\ outs[last.out].addr = last.h.addr
  /\ heap[last.h.addr].live

\* C13: single owner.  In every state between two operations, every live heap
\* block has exactly one owner, which is a live handle with the tag set at the
\* block's address or a Box<str>/String/Cow::Owned at that address, and a
\* released block has none; when drop() or to() has rebuilt the Box<str> of an
\* owned handle, that handle reports borrowed, so that the Box<str> is the one
\* owner; clones and downgraded views never add an owner.
C13_SingleOwner ==
  /\ \A a \in HeapAddrs : Owners(a) = (IF heap[a].live THEN 1 ELSE 0)
  /\ \A i, j \in Slots :
       (i # j /\ Owned(i) /\ Owned(j) /\ real_len(hs[i]) > 0) => hs[i].addr # hs[j].addr
  /\ \A i \in Slots : (Owned(i) /\ real_len(hs[i]) > 0) => hs[i].addr \in HeapAddrs
  /\ (last.op = "drop" /\ is_owned(last.h)) => is_borrowed(last.self)
  /\ (last.op = "to" /\ is_owned(last.h)) =>
       (last.passed.kind = "box" /\ is_borrowed(last.self1))
  /\ (last.op \in {"clone", "borrowed"} /\ Owned(last.slot) /\ real_len(last.h) > 0) =>
       /\ Owners(last.h.addr) = 1
       /\ Owned(last.dst) => hs[last.dst].addr # last.h.addr

\* an owned, non-empty handle was cloned while a view of it is alive: two
\* blocks, each with its one owner, and the view owns none
C13_Witness ==
  /\ last.op = "clone"
  /\ Owned(last.slot)
  /\ Owned(last.dst)
  /\ real_len(last.h) > 0
  /\ Cardinality(LiveBlocks) = 2
  /\ \E v \in Slots : Live(v) /\ phd[v].lender = last.slot /\ hs[v].addr = last.h.addr
  /\ \A a \in LiveBlocks : Owners(a) = 1

\* what a &self method returns for a handle of content src and ownership owned
ByContent(op, src, owned, s) ==
  CASE op = "is_borrowed" -> ~owned
    [] op = "is_owned"    -> owned
    [] op = "deref"       -> src
    [] op = "len"         -> Len(src)
    [] op = "as_ref"      -> src
    [] op = "eq"          -> src = s
    [] op = "cmp"         -> StrCmp(src, s)
    [] op = "hash"        -> StrHash(src)
    [] op = "fmt_debug"   -> <<34>> \o src \o <<34>>
    [] op = "fmt_display" -> src

\* C14: read-only sharing.  While threads run &self methods on one shared
\* handle, in any interleaving of their loads, the handle keeps the addr and
\* xlen it had when each method was called, its block stays live with its
\* bytes, and no method releases a block; every method returns what it returns
\* when run alone on the handle, which depends on the handle's content and
\* ownership only: borrowed() a borrowed handle on the same bytes, clone() a
\* handle of the same ownership and bytes, on a block of its own when owned.
C14_ReadOnly ==
  /\ ub = "none"
  /\ last.op = "read" => last.rel = <<>>
  /\ \A t \in Readers :
       LET r == readers[t] IN
       r.pc # "idle" =>
         /\ Live(Shared)
         /\ hs[Shared] = r.self0
         /\ deref(heap, hs[Shared]) = phd[Shared].src
         /\ (is_owned(hs[Shared]) /\ real_len(hs[Shared]) > 0) => heap[hs[Shared].addr].live
         /\ r.pc = "done" =>
              CASE r.op = "clone" ->
                     /\ is_owned(r.res) = phd[Shared].owned_src
                     /\ deref(heap, r.res) = phd[Shared].src
                     /\ (is_owned(r.res) /\ real_len(r.res) > 0) =>
                          (r.res.addr # hs[Shared].addr /\ heap[r.res.addr].live)
                     /\ is_borrowed(r.res) => r.res = hs[Shared]
                [] r.op = "borrowed" ->
                     /\ r.res = Result(heap, r.op, hs[Shared], r.arg)
                     /\ is_borrowed(r.res)
                     /\ r.res.addr = hs[Shared].addr
                     /\ deref(heap, r.res) = phd[Shared].src
                [] OTHER ->
                     /\ r.res = Result(heap, r.op, hs[Shared], r.arg)
                     /\ r.res = ByContent(r.op, phd[Shared].src, phd[Shared].owned_src, r.arg)

\* one thread holds a finished clone of the shared owned handle while another
\* is between its two loads for hash()
C14_Witness ==
  /\ Owned(Shared)
  /\ real_len(hs[Shared]) > 0
  /\ \E t, u \in Readers :
       /\ readers[t].pc = "done"
       /\ readers[t].op = "clone"
       /\ is_owned(readers[t].res)
       /\ readers[t].res.addr # hs[Shared].addr
       /\ readers[u].pc = "run"
       /\ readers[u].op = "hash"
       /\ Len(readers[u].todo) = 1

====
